---- MODULE Spec2Model ----
(***************************************************************************)
(* State-machine model of src/adaptive_monetization_framework.py:          *)
(* MonetizationStrategy (per-context decision object) and                  *)
(* AdaptiveMonetizationFramework (the orchestrator and its registry).      *)
(*                                                                         *)
(* Python dicts are functions from a finite set of string keys to values.  *)
(* A call result is a record with a field raised: TRUE when the call       *)
(* propagated an exception to its caller, FALSE when it returned value.    *)
(* The external collaborators (EmotionAnalyzer, ReinforcementLearner,      *)
(* logging, the clock) are inputs of each call, drawn from Envs.           *)
(*                                                                         *)
(* current_state holds a reference: two strategies constructed from the    *)
(* same dict object share it until one of them rebinds current_state.      *)
(* state_ref names the object: 0 is a dict no other strategy holds, n > 0  *)
(* is the dict handed to the n-th registered strategy's constructor.       *)
(***************************************************************************)
EXTENDS Integers, Sequences, FiniteSets, TLC

\* ---- bounds of the model ----
MaxStrategies == 3
MaxTime == 1
MaxReward == 1
MaxOps == 4

\* ---- values ----
\* Python's None: a value that is no dict (it has no keys, .get or .items).
None == [k \in {"NoneType"} |-> "None"]
IsNone(x) == "NoneType" \in DOMAIN x
IsDict(d) == ~IsNone(d)

Times == 1..MaxTime
Rewards == 1..MaxReward
PolicyActions == {"upsell", "none"}
RegistryKeys == {"default", "premium", "fallback"}
UserData == {"click"}
OutcomeKeys == {"action", "reward", "timestamp"}

\* The states a caller hands to MonetizationStrategy(initial_state).
InitialStates ==
    { [context |-> "default", plan |-> "pro"],
      [context |-> "premium"],
      None }

\* What the providers and the clock do during one execute() call.
Envs ==
    { e \in [emoFail : BOOLEAN, actFail : BOOLEAN, rewFail : BOOLEAN,
             action : PolicyActions, reward : Rewards,
             tState : Times, tOut : Times] :
        \* a value the call never reads is fixed, not enumerated
        /\ (e.actFail \/ e.rewFail => e.action = "upsell")
        /\ (e.rewFail => e.reward = 1 /\ e.tState = 1) }

Raise == [raised |-> TRUE, value |-> None]
Return(v) == [raised |-> FALSE, value |-> v]

\* dict.get(key, default)
Get(d, key, default) == IF key \in DOMAIN d THEN d[key] ELSE default

\* ---- MonetizationStrategy ----
NewStrategy(initial_state, ref) ==
    [current_state |-> initial_state,
     state_ref |-> ref,
     reward_history |-> << >>,
     error_handling |-> TRUE]

NeutralEmotion == [sentiment |-> "neutral", intensity |-> 0]
AnalyzedEmotion == [sentiment |-> "analyzed", intensity |-> 1]

\* Mutant: the handler never re-raises, also in strict mode.
_get_emotional_context_swallows(self, env) ==
    IF env.emoFail THEN Return(NeutralEmotion) ELSE Return(AnalyzedEmotion)

_get_emotional_context(self, env) ==
    IF env.emoFail
    THEN IF ~self.error_handling THEN Raise ELSE Return(NeutralEmotion)
    ELSE Return(AnalyzedEmotion)

\* Mutant: the new state is built without the old state's keys.
MergeState_noCopy(d, action, reward, t) ==
    [last_action |-> action, timestamp |-> t, reward |-> reward]

\* {**current_state, "last_action": .., "timestamp": .., "reward": ..}
MergeState(d, action, reward, t) ==
    [k \in DOMAIN d \cup {"last_action", "timestamp", "reward"} |->
        IF k = "last_action" THEN action
        ELSE IF k = "timestamp" THEN t
        ELSE IF k = "reward" THEN reward
        ELSE d[k]]

\* Mutant: the dict is updated in place instead of being replaced.
_update_state_inPlace(self, action, reward, env) ==
    IF ~IsDict(self.current_state)
    THEN [self |-> self, raised |-> ~self.error_handling]
    ELSE [self |-> [self EXCEPT
                      !.current_state = MergeState(@, action, reward, env.tState),
                      !.reward_history = Append(@, reward)],
          raised |-> FALSE]

\* Returns the strategy after the call and whether the call raised.
_update_state(self, action, reward, env) ==
    IF ~IsDict(self.current_state)
    THEN \* ** of a non-mapping raises TypeError before any assignment
         [self |-> self, raised |-> ~self.error_handling]
    ELSE [self |-> [self EXCEPT
                      !.current_state = MergeState(@, action, reward, env.tState),
                      !.state_ref = 0,
                      !.reward_history = Append(@, reward)],
          raised |-> FALSE]

\* reinforcement_learner.choose_action(current_state, emotional_context)
choose_action(emotional_context, env) ==
    IF emotional_context.raised \/ env.actFail THEN Raise ELSE Return(env.action)

\* Mutant: the handler answers with the degraded action instead of the safe one.
SelectHandled_noFallback(self, action) ==
    IF ~action.raised THEN action
    ELSE IF ~self.error_handling THEN Raise
    ELSE Return("none")

SelectHandled(self, action) ==
    IF ~action.raised THEN action
    ELSE IF ~self.error_handling THEN Raise
    ELSE Return("minimal_intervention")

_select_next_action(self, env) ==
    SelectHandled(self, choose_action(_get_emotional_context(self, env), env))

DegradedOutcome(t) == [action |-> "none", reward |-> 0, timestamp |-> t]
\* Mutant: the returned outcome has no timestamp.
SuccessOutcome_noTimestamp(action, reward, t) ==
    [action |-> action, reward |-> reward]

SuccessOutcome(action, reward, t) ==
    [action |-> action, reward |-> reward, timestamp |-> t]

\* Mutant: the handler reports the failure with the last recorded reward.
ExecuteFailed_keepsReward(self, env) ==
    IF ~self.error_handling
    THEN [self |-> self, raised |-> TRUE, value |-> None]
    ELSE [self |-> self, raised |-> FALSE,
          value |-> [action |-> "none",
                     reward |-> Get(self.current_state, "reward", 0),
                     timestamp |-> env.tOut]]

\* execute()'s except clause
ExecuteFailed(self, env) ==
    IF ~self.error_handling
    THEN [self |-> self, raised |-> TRUE, value |-> None]
    ELSE [self |-> self, raised |-> FALSE, value |-> DegradedOutcome(env.tOut)]

\* execute() from the return of _update_state on
ExecuteUpdated(upd, action, env) ==
    IF upd.raised
    THEN ExecuteFailed(upd.self, env)
    ELSE [self |-> upd.self, raised |-> FALSE,
          value |-> SuccessOutcome(action, env.reward, env.tOut)]

\* Mutant: the state is updated before the reward lookup is known to succeed.
ExecuteSelected_updateFirst(self, action, env) ==
    IF action.raised
    THEN ExecuteFailed(self, env)
    ELSE IF env.rewFail
    THEN ExecuteFailed(_update_state(self, action.value, env.reward, env).self, env)
    ELSE ExecuteUpdated(_update_state(self, action.value, env.reward, env),
                        action.value, env)

\* execute() from the return of _select_next_action on
ExecuteSelected(self, action, env) ==
    IF action.raised \/ env.rewFail
    THEN ExecuteFailed(self, env)
    ELSE ExecuteUpdated(_update_state(self, action.value, env.reward, env),
                        action.value, env)

\* Returns [self, raised, value]: the strategy after the call and the result.
execute(self, env) ==
    ExecuteSelected(self, _select_next_action(self, env), env)

\* ---- AdaptiveMonetizationFramework ----
\* A strategy argument is a strategy record or None.
_is_strategy_applicable(strategy, context) ==
    IF IsNone(strategy) \/ ~IsDict(strategy.current_state)
    THEN FALSE   \* AttributeError, caught
    ELSE Get(strategy.current_state, "context", "none") = context

\* strategies.get("fallback", None), as a position in the registry
FallbackIndex(reg) ==
    IF \E i \in 1..Len(reg) : reg[i].key = "fallback"
    THEN CHOOSE i \in 1..Len(reg) : reg[i].key = "fallback"
    ELSE 0

\* The candidates, as positions in the registry; 0 stands for None.
_select_relevant_strategies(reg, context) ==
    LET Applicable(i) == _is_strategy_applicable(reg[i].strategy, context)
        applicable_strategies == SelectSeq([i \in 1..Len(reg) |-> i], Applicable)
    IN  IF applicable_strategies = << >>
        THEN << FallbackIndex(reg) >>
        ELSE applicable_strategies

\* Mutant: a logging failure is not caught.
_log_outcome_raises(outcome, logFail) ==
    [raised |-> ~(OutcomeKeys \subseteq DOMAIN outcome) \/ logFail,
     logged |-> (OutcomeKeys \subseteq DOMAIN outcome) /\ ~logFail]

\* logFail: the logging sink fails during this call.
_log_outcome(outcome, logFail) ==
    LET invalid == ~(OutcomeKeys \subseteq DOMAIN outcome)
        failed == invalid \/ logFail
    IN  \* every exception is caught and logged inside _log_outcome
        [raised |-> FALSE, logged |-> ~failed]

\* Mutant: rollback removes every key the update wrote.
_rollback_strategy_execution_dropsTimestamp(strategy) ==
    IF IsNone(strategy) \/ ~IsDict(strategy.current_state)
    THEN strategy
    ELSE [strategy EXCEPT
            !.current_state =
                [k \in DOMAIN @ \ {"last_action", "reward", "timestamp"} |-> @[k]],
            !.state_ref = 0]

\* Mutant: rollback also takes the last reward off the history.
_rollback_strategy_execution_popsHistory(strategy) ==
    IF IsNone(strategy) \/ ~IsDict(strategy.current_state)
    THEN strategy
    ELSE [strategy EXCEPT
            !.current_state = [k \in DOMAIN @ \ {"last_action", "reward"} |-> @[k]],
            !.state_ref = 0,
            !.reward_history = IF @ = << >> THEN @ ELSE SubSeq(@, 1, Len(@) - 1)]

_rollback_strategy_execution(strategy) ==
    IF IsNone(strategy) \/ ~IsDict(strategy.current_state)
    THEN strategy   \* AttributeError, caught and logged
    ELSE [strategy EXCEPT
            !.current_state = [k \in DOMAIN @ \ {"last_action", "reward"} |-> @[k]],
            !.state_ref = 0]

\* Returns [self, raised, value, rollback, logged]: the strategy after the call,
\* the result, whether _rollback_strategy_execution was called and whether the
\* outcome reached the log.
\* _execute_strategy from the return of _log_outcome on; its except clause
\* runs when execute() or _log_outcome raised.
ExecuteStrategyLogged(res, log, env, eh) ==
    IF res.raised \/ log.raised
    THEN IF ~eh
         THEN [self |-> res.self, raised |-> TRUE, value |-> None,
               rollback |-> FALSE, logged |-> log.logged]
         ELSE [self |-> _rollback_strategy_execution(res.self),
               raised |-> FALSE, value |-> DegradedOutcome(env.tOut),
               rollback |-> TRUE, logged |-> log.logged]
    ELSE [self |-> res.self, raised |-> FALSE, value |-> res.value,
          rollback |-> FALSE, logged |-> log.logged]

\* _execute_strategy from the return of strategy.execute() on
ExecuteStrategyExecuted(res, env, logFail, eh) ==
    ExecuteStrategyLogged(res,
        IF res.raised THEN [raised |-> FALSE, logged |-> FALSE]
        ELSE _log_outcome(res.value, logFail),
        env, eh)

_execute_strategy(strategy, env, logFail, eh) ==
    ExecuteStrategyExecuted(
        IF IsNone(strategy)
        THEN \* None has no execute: AttributeError
             [self |-> strategy, raised |-> TRUE, value |-> None]
        ELSE execute(strategy, env),
        env, logFail, eh)

StrategyAt(reg, c) == IF c = 0 THEN None ELSE reg[c].strategy

\* The registry after strategy c became s: the dict object s.state_ref is seen
\* through every strategy that holds it.
PutStrategy(reg, c, s) ==
    IF c = 0 THEN reg
    ELSE [j \in 1..Len(reg) |->
            IF j = c THEN [reg[j] EXCEPT !.strategy = s]
            ELSE IF s.state_ref # 0 /\ reg[j].strategy.state_ref = s.state_ref
            THEN [reg[j] EXCEPT !.strategy.current_state = s.current_state]
            ELSE reg[j]]

CallRecord(c, res) ==
    [cand |-> c, raised |-> res.raised, value |-> res.value,
     rollback |-> res.rollback, logged |-> res.logged]

PrependCall(call, run) == [run EXCEPT !.calls = <<call>> \o @]

\* The candidate loop from candidate k on: first non-"none" outcome wins,
\* otherwise the last outcome; an exception leaves the loop.
RECURSIVE process_loop(_, _, _, _, _, _)

\* One iteration, from the return of _execute_strategy on.
process_loop_body(reg, cands, envs, logFail, k, eh, res) ==
    IF res.raised
    THEN [reg |-> reg, raised |-> TRUE, value |-> None,
          calls |-> <<CallRecord(cands[k], res)>>]
    ELSE IF res.value.action # "none" \/ k = Len(cands)
    THEN [reg |-> PutStrategy(reg, cands[k], res.self), raised |-> FALSE,
          value |-> res.value, calls |-> <<CallRecord(cands[k], res)>>]
    ELSE PrependCall(CallRecord(cands[k], res),
             process_loop(PutStrategy(reg, cands[k], res.self), cands, envs,
                          logFail, k + 1, eh))

process_loop(reg, cands, envs, logFail, k, eh) ==
    process_loop_body(reg, cands, envs, logFail, k, eh,
        _execute_strategy(StrategyAt(reg, cands[k]), envs[k], logFail, eh))

\* The handler of process_interaction's try block.
process_failed(run, eh, t) ==
    IF ~run.raised \/ ~eh THEN run
    ELSE [run EXCEPT !.raised = FALSE, !.value = DegradedOutcome(t)]

\* process_interaction from the return of _select_relevant_strategies on
process_selected(reg, applicable_strategies, eh, envs, logFail, t) ==
    IF applicable_strategies = << >>
    THEN [reg |-> reg, raised |-> FALSE, value |-> DegradedOutcome(t),
          calls |-> << >>]
    ELSE process_failed(
             process_loop(reg, applicable_strategies, envs, logFail, 1, eh),
             eh, t)

process_interaction(reg, context, eh, envs, logFail, t) ==
    process_selected(reg, _select_relevant_strategies(reg, context),
                     eh, envs, logFail, t)

\* ---- state ----
VARIABLES
    strategies,        \* the registry, in insertion order: <<[key, strategy]>>
    current_context,   \* the orchestrator's current context
    error_handling,    \* the orchestrator's error_handling flag
    ops,               \* number of calls made so far
    last,              \* the last call: what was called, on what, its result
    threads            \* the execute() calls in flight, one per thread

vars == <<strategies, current_context, error_handling, ops, last, threads>>

CallResult(op, target, raised, value, calls) ==
    [op |-> op, target |-> target, raised |-> raised,
     value |-> value, calls |-> calls]

Init ==
    /\ strategies = << >>
    /\ current_context = "default"
    /\ error_handling \in BOOLEAN
    /\ ops = 0
    /\ last = CallResult("none", 0, FALSE, None, << >>)
    /\ threads = << >>

Keys(reg) == {reg[i].key : i \in 1..Len(reg)}

\* strategies[key] = MonetizationStrategy(initial_state), optionally with
\* error_handling switched off; shared > 0 passes the very dict object that
\* strategy number shared was constructed with. The code reads no key but
\* "fallback", so the other keys are taken in one fixed order.
Register(key, initial_state, strict, shared) ==
    /\ ops < MaxOps
    /\ Len(strategies) < MaxStrategies
    /\ Len(strategies) = ops
    /\ key \notin Keys(strategies)
    /\ (key = "premium" => "default" \in Keys(strategies))
    /\ shared \in 0..Len(strategies)
    /\ shared > 0 =>
          /\ IsDict(initial_state)
          /\ strategies[shared].strategy.state_ref = shared
          /\ strategies[shared].strategy.current_state = initial_state
    /\ strategies' = Append(strategies,
           [key |-> key,
            strategy |-> [NewStrategy(initial_state,
                             IF shared > 0 THEN shared ELSE Len(strategies) + 1)
                          EXCEPT !.error_handling = ~strict]])
    /\ ops' = ops + 1
    /\ UNCHANGED <<current_context, error_handling, last, threads>>

\* The call op on strategy c returned res: the strategy and the call are stored.
Called(op, c, res) ==
    /\ strategies' = PutStrategy(strategies, c, res.self)
    /\ last' = CallResult(op, c, res.raised, res.value, << >>)
    /\ ops' = ops + 1
    /\ UNCHANGED <<current_context, error_handling, threads>>

CalledTraced(op, c, res) ==
    /\ strategies' = PutStrategy(strategies, c, res.self)
    /\ last' = CallResult(op, c, res.raised, res.value, <<CallRecord(c, res)>>)
    /\ ops' = ops + 1
    /\ UNCHANGED <<current_context, error_handling, threads>>

Processed(run) ==
    /\ strategies' = run.reg
    /\ last' = CallResult("process_interaction", 0, run.raised, run.value,
                          run.calls)
    /\ ops' = ops + 1
    /\ UNCHANGED <<current_context, error_handling, threads>>

\* strategy.execute() called directly on a registered strategy
Execute(i, env) ==
    /\ ops < MaxOps
    /\ i \in 1..Len(strategies)
    /\ Called("execute", i, execute(strategies[i].strategy, env))

\* _execute_strategy(strategy) on a registered strategy or on None (c = 0)
ExecuteStrategy(c, env, logFail) ==
    /\ ops < MaxOps
    /\ c \in 0..Len(strategies)
    /\ CalledTraced("execute_strategy", c,
          _execute_strategy(StrategyAt(strategies, c), env, logFail,
                            error_handling))

\* _rollback_strategy_execution(strategy) on a registered strategy or on None
Rollback(c) ==
    /\ ops < MaxOps
    /\ c \in 0..Len(strategies)
    /\ Called("rollback", c,
          [self |-> _rollback_strategy_execution(StrategyAt(strategies, c)),
           raised |-> FALSE, value |-> None])

\* process_interaction(user_data)
ProcessInteraction(user_data, envs, logFail, t) ==
    /\ ops < MaxOps
    /\ Processed(process_interaction(strategies, current_context,
                                     error_handling, envs, logFail, t))

\* One environment per candidate of the coming process_interaction call.
EnvSeqs == [1..Len(_select_relevant_strategies(strategies, current_context)) -> Envs]

Next ==
    \/ \E key \in RegistryKeys, s \in InitialStates, strict \in BOOLEAN,
          shared \in 0..MaxStrategies : Register(key, s, strict, shared)
    \/ \E i \in 1..MaxStrategies, env \in Envs : Execute(i, env)
    \/ \E c \in 0..MaxStrategies, env \in Envs, logFail \in BOOLEAN :
          ExecuteStrategy(c, env, logFail)
    \/ \E c \in 0..MaxStrategies : Rollback(c)
    \/ \E user_data \in UserData, envs \in EnvSeqs, logFail \in BOOLEAN,
          t \in Times : ProcessInteraction(user_data, envs, logFail, t)

Spec == Init /\ [][Next]_vars

\* ---- concurrent execute() calls on one strategy ----
\* Several threads call execute() on strategies[1]. The code takes no lock, so
\* a thread can be preempted between any two of its accesses to the strategy:
\* the read of current_state for the merge, the assignment of the merged dict
\* and the append to reward_history are separate steps.
MaxThreads == 2
MaxThreadReward == 2
Threads == 1..MaxThreads
ThreadRewards == 1..MaxThreadReward

IdleThread ==
    [pc |-> "idle", action |-> "", reward |-> 0, tOut |-> 0,
     new_state |-> None, value |-> None]

InitThreads ==
    /\ \E d \in {s \in InitialStates : IsDict(s)} :
          strategies = << [key |-> "default", strategy |-> NewStrategy(d, 1)] >>
    /\ current_context = "default"
    /\ error_handling = TRUE
    /\ ops = 0
    /\ last = CallResult("none", 0, FALSE, None, << >>)
    /\ threads = [t \in Threads |-> IdleThread]

ThreadDone(th, res) == [th EXCEPT !.pc = "done", !.value = res.value]

\* execute() up to the call of _update_state: nothing shared is written.
ThreadSelected(th, self, action, env) ==
    IF action.raised \/ env.rewFail
    THEN ThreadDone(th, ExecuteFailed(self, env))
    ELSE [th EXCEPT !.pc = "rewarded", !.action = action.value,
                    !.reward = env.reward, !.tOut = env.tOut,
                    !.new_state = [timestamp |-> env.tState]]

BeginExecute(t, env) ==
    /\ threads[t].pc = "idle"
    /\ threads' = [threads EXCEPT ![t] =
          ThreadSelected(@, strategies[1].strategy,
                         _select_next_action(strategies[1].strategy, env), env)]
    /\ UNCHANGED <<strategies, current_context, error_handling, ops, last>>

\* {**self.current_state, ...}: the dict is read and the merged copy is built.
BuildState(t) ==
    /\ threads[t].pc = "rewarded"
    /\ threads' = [threads EXCEPT ![t] =
          [@ EXCEPT !.pc = "merged",
                    !.new_state = MergeState(strategies[1].strategy.current_state,
                                             threads[t].action,
                                             threads[t].reward, @.timestamp)]]
    /\ UNCHANGED <<strategies, current_context, error_handling, ops, last>>

\* self.current_state = <the merged copy>
AssignState(t) ==
    /\ threads[t].pc = "merged"
    /\ strategies' = PutStrategy(strategies, 1,
          [strategies[1].strategy EXCEPT !.current_state = threads[t].new_state,
                                         !.state_ref = 0])
    /\ threads' = [threads EXCEPT ![t].pc = "assigned"]
    /\ UNCHANGED <<current_context, error_handling, ops, last>>

\* self.reward_history.append(reward), then execute() returns its outcome.
AppendReward(t) ==
    /\ threads[t].pc = "assigned"
    /\ strategies' = PutStrategy(strategies, 1,
          [strategies[1].strategy EXCEPT
              !.reward_history = Append(@, threads[t].reward)])
    /\ threads' = [threads EXCEPT ![t] =
          [@ EXCEPT !.pc = "done",
                    !.value = SuccessOutcome(threads[t].action,
                                             threads[t].reward,
                                             threads[t].tOut)]]
    /\ UNCHANGED <<current_context, error_handling, ops, last>>

\* get_reward may answer any reward to any thread.
ThreadEnvs ==
    {[env EXCEPT !.reward = r] : env \in {e \in Envs : ~e.rewFail},
                                 r \in ThreadRewards}
        \cup {e \in Envs : e.rewFail}

NextThreads ==
    \/ \E t \in Threads, env \in ThreadEnvs : BeginExecute(t, env)
    \/ \E t \in Threads : BuildState(t)
    \/ \E t \in Threads : AssignState(t)
    \/ \E t \in Threads : AppendReward(t)

SpecThreads == InitThreads /\ [][NextThreads]_vars

\* ---- single calls on any registry and any current context ----
\* The orchestrator after its registrations and after context switching
\* (current_context is assigned by the surrounding configuration code), and
\* one call of a selection function on it. A caller may hand any dict, also
\* one without a context key, to MonetizationStrategy(initial_state).
Contexts == {"default", "premium", "none"}
SelectionStates == InitialStates \cup { [plan |-> "pro"] }

InitSelect ==
    /\ strategies = << >>
    /\ current_context \in Contexts
    /\ error_handling = TRUE
    /\ ops = 0
    /\ last = CallResult("none", 0, FALSE, None, << >>)
    /\ threads = << >>

\* The call op on strategy c returned value; nothing else changes.
Answered(op, c, raised, value) ==
    /\ ops < MaxOps
    /\ ops = Len(strategies)
    /\ last' = CallResult(op, c, raised, value, << >>)
    /\ ops' = ops + 1
    /\ UNCHANGED <<strategies, current_context, error_handling, threads>>

\* _select_relevant_strategies()
SelectRelevant ==
    /\ current_context \in Contexts
    /\ Answered("select_relevant_strategies", 0, FALSE,
                [candidates |-> _select_relevant_strategies(strategies,
                                                            current_context)])

\* _is_strategy_applicable(strategy) on a registered strategy
IsApplicable(c) ==
    /\ c \in 1..Len(strategies)
    /\ Answered("is_strategy_applicable", c, FALSE,
                [applicable |-> _is_strategy_applicable(strategies[c].strategy,
                                                        current_context)])

\* What a call of _select_next_action shows: its result, the emotional
\* context it handed to choose_action, and which providers failed.
SelectionTrace(res, emotion, env) ==
    [action |-> res.value, emotion |-> emotion,
     emoFail |-> env.emoFail, actFail |-> env.actFail,
     chosen |-> env.action]

\* strategy._select_next_action() on a registered strategy
SelectNextAction(i, env) ==
    /\ i \in 1..Len(strategies)
    /\ Answered("select_next_action", i,
                _select_next_action(strategies[i].strategy, env).raised,
                SelectionTrace(_select_next_action(strategies[i].strategy, env),
                               _get_emotional_context(strategies[i].strategy, env),
                               env))

NextSelect ==
    \/ \E key \in RegistryKeys, s \in SelectionStates, strict \in BOOLEAN :
          Register(key, s, strict, 0)
    \/ SelectRelevant
    \/ \E c \in 1..MaxStrategies : IsApplicable(c)
    \/ \E i \in 1..MaxStrategies, env \in Envs : SelectNextAction(i, env)

SpecSelect == InitSelect /\ [][NextSelect]_vars

\* ---- properties ----
\* The step just taken was a call of op.
IsStep(op) == ops' = ops + 1 /\ last'.op = op

StateOf(reg, i) == reg[i].strategy.current_state
HistoryOf(reg, i) == reg[i].strategy.reward_history
AllErrorHandling ==
    \A i \in 1..Len(strategies) : strategies[i].strategy.error_handling
IsDegraded(outcome) == outcome.action = "none" /\ outcome.reward = 0
HasKey(d, k) == IsDict(d) /\ k \in DOMAIN d

\* C1: with error handling enabled on the orchestrator and on every strategy,
\* process_interaction never raises and returns an outcome with exactly the
\* fields action, reward and timestamp, whatever the registry holds and
\* whichever providers fail.
C1_Totality ==
    (last.op = "process_interaction" /\ error_handling /\ AllErrorHandling)
        => (~last.raised /\ DOMAIN last.value = OutcomeKeys)

C1_Witness ==
    /\ last.op = "process_interaction" /\ error_handling /\ AllErrorHandling
    /\ Len(last.calls) >= 2
    /\ IsDegraded(last.calls[1].value)
    /\ DOMAIN last.value = OutcomeKeys

\* C2: with an empty registry process_interaction returns the degraded
\* outcome (action "none", reward 0, a timestamp).
C2_EmptyRegistry ==
    (last.op = "process_interaction" /\ strategies = << >>)
        => (~last.raised /\ IsDegraded(last.value)
            /\ "timestamp" \in DOMAIN last.value)

\* C3: process_interaction executes the candidates in list order and returns
\* the outcome of the first candidate whose action is not "none"; the
\* candidates after it are not executed and keep their state and history; if
\* every outcome has action "none" the last one is returned. A candidate that
\* degraded has no last_action or reward key added to its state.
C3_FirstSuccessWins ==
    [][(IsStep("process_interaction") /\ ~last'.raised) =>
        LET cands == _select_relevant_strategies(strategies, current_context)
            calls == last'.calls
            n == Len(calls)
        IN  /\ n \in 1..Len(cands)
            /\ \A k \in 1..n : calls[k].cand = cands[k]
            /\ \A k \in 1..(n - 1) : calls[k].value.action = "none"
            /\ last'.value = calls[n].value
            /\ (n < Len(cands) => last'.value.action # "none")
            /\ \A k \in (n + 1)..Len(cands) :
                  strategies'[cands[k]] = strategies[cands[k]]
            /\ \A k \in 1..n :
                  (cands[k] # 0 /\ IsDegraded(calls[k].value)) =>
                     \A key \in {"last_action", "reward"} :
                        HasKey(StateOf(strategies', cands[k]), key)
                           => HasKey(StateOf(strategies, cands[k]), key)
    ]_vars

C3_Witness ==
    /\ last.op = "process_interaction"
    /\ Len(last.calls) = 3
    /\ IsDegraded(last.calls[1].value) /\ IsDegraded(last.calls[2].value)
    /\ last.value.action = "upsell"
    /\ \A k \in 1..2 : ~HasKey(StateOf(strategies, last.calls[k].cand), "last_action")
    /\ HasKey(StateOf(strategies, last.calls[3].cand), "last_action")

\* C4: after an execute() that returns a non-degraded outcome, the state holds
\* last_action and reward equal to the outcome's action and reward, and the
\* reward history has grown by exactly that reward.
C4_SuccessRecorded ==
    [][(IsStep("execute") /\ ~last'.raised /\ ~IsDegraded(last'.value)) =>
        LET i == last'.target
            d == StateOf(strategies', i)
        IN  /\ HasKey(d, "last_action") /\ d.last_action = last'.value.action
            /\ HasKey(d, "reward") /\ d.reward = last'.value.reward
            /\ HistoryOf(strategies', i)
                  = Append(HistoryOf(strategies, i), last'.value.reward)
    ]_vars

\* C5: when the reward lookup fails during execute() in default mode, execute()
\* returns the degraded outcome and leaves state and reward history as they were.
C5_RewardFailureLeavesState ==
    [][IsStep("execute") =>
        \A env \in Envs :
          (/\ env.rewFail
           /\ strategies[last'.target].strategy.error_handling
           /\ Execute(last'.target, env))
          => /\ ~last'.raised
             /\ IsDegraded(last'.value)
             /\ StateOf(strategies', last'.target) = StateOf(strategies, last'.target)
             /\ HistoryOf(strategies', last'.target)
                   = HistoryOf(strategies, last'.target)
    ]_vars

C5_Witness ==
    /\ last.op = "execute" /\ ~last.raised /\ IsDegraded(last.value)
    /\ strategies[last.target].strategy.error_handling
    /\ Len(HistoryOf(strategies, last.target)) >= 1
    /\ HasKey(StateOf(strategies, last.target), "last_action")

\* C6: the value of the context key of a strategy's state never changes,
\* whatever is executed or rolled back.
C6_ContextImmutable ==
    [][\A i \in 1..Len(strategies) :
        HasKey(StateOf(strategies, i), "context") =>
           /\ HasKey(StateOf(strategies', i), "context")
           /\ StateOf(strategies', i).context = StateOf(strategies, i).context
    ]_vars

C6_Witness ==
    \E i \in 1..Len(strategies) :
        /\ Len(HistoryOf(strategies, i)) >= 2
        /\ last.op = "execute" /\ last.target = i /\ IsDegraded(last.value)
        /\ HasKey(StateOf(strategies, i), "context")
        /\ StateOf(strategies, i).context = "default"

\* The state d1 is d0 without the keys last_action and reward.
RolledBack(d0, d1) ==
    IF IsDict(d0)
    THEN /\ IsDict(d1)
         /\ DOMAIN d1 = DOMAIN d0 \ {"last_action", "reward"}
         /\ \A k \in DOMAIN d1 : d1[k] = d0[k]
    ELSE d1 = d0

C8_StrictPropagates ==
    [][/\ IsStep("execute") =>
            \A env \in Envs :
              (/\ env.emoFail \/ env.actFail \/ env.rewFail
               /\ ~strategies[last'.target].strategy.error_handling
               /\ Execute(last'.target, env))
              => last'.raised
       /\ (IsStep("execute_strategy") /\ last'.target # 0 /\ ~error_handling) =>
            \A env \in Envs, logFail \in BOOLEAN :
              (/\ execute(strategies[last'.target].strategy, env).raised
               /\ ExecuteStrategy(last'.target, env, logFail))
              => /\ last'.raised
                 /\ ~last'.calls[1].rollback
                 /\ strategies' = strategies
    ]_vars

C8_Witness ==
    /\ last.op = "execute_strategy" /\ last.target # 0
    /\ ~error_handling /\ last.raised
    /\ ~strategies[last.target].strategy.error_handling
    /\ HasKey(StateOf(strategies, last.target), "last_action")

\* The call returned what execute() returned, ex, and stored its strategy.
SameAsExecute(ex) ==
    /\ ~last'.raised
    /\ last'.value = ex.value
    /\ ~last'.calls[1].rollback
    /\ strategies'[last'.target].strategy = ex.self

\* C9: a failure of outcome logging or validation inside _execute_strategy
\* never changes the result: the outcome of execute() is returned as it is and
\* the strategy is not rolled back.
C9_LoggingNeverAffects ==
    [][(IsStep("execute_strategy") /\ last'.target # 0) =>
        \A env \in Envs :
          (/\ ExecuteStrategy(last'.target, env, TRUE)
           /\ ~execute(strategies[last'.target].strategy, env).raised)
          => SameAsExecute(execute(strategies[last'.target].strategy, env))
    ]_vars

C9_Witness ==
    /\ last.op = "execute_strategy" /\ last.target # 0
    /\ ~last.raised /\ ~last.calls[1].logged
    /\ last.value.action = "upsell"
    /\ HasKey(StateOf(strategies, last.target), "last_action")

\* C10: executing or rolling back one strategy leaves the state and reward
\* history of every other strategy, and the registry's keys and entries,
\* unchanged.
C10_SiblingsUntouched ==
    [][(IsStep("execute") \/ IsStep("execute_strategy") \/ IsStep("rollback")) =>
        /\ Len(strategies') = Len(strategies)
        /\ \A j \in 1..Len(strategies) :
              /\ strategies'[j].key = strategies[j].key
              /\ j # last'.target =>
                    /\ StateOf(strategies', j) = StateOf(strategies, j)
                    /\ HistoryOf(strategies', j) = HistoryOf(strategies, j)
    ]_vars

C10_Witness ==
    /\ last.op \in {"execute", "execute_strategy"} /\ last.target # 0
    /\ HasKey(StateOf(strategies, last.target), "last_action")
    /\ \E j \in 1..Len(strategies) :
          /\ j # last.target
          /\ strategies[j].strategy.state_ref = last.target
          /\ ~HasKey(StateOf(strategies, j), "last_action")

\* C11: when several execute() calls on the same strategy have run
\* concurrently and all have returned, the reward stored in the state is the
\* last element of the reward history, every successful call has its reward in
\* the history, and the state is the update of one of the successful calls.
C11_Linearized ==
    (threads # << >> /\ \A t \in Threads : threads[t].pc = "done") =>
        LET succeeded == {t \in Threads : ~IsDegraded(threads[t].value)}
            d == StateOf(strategies, 1)
            h == HistoryOf(strategies, 1)
        IN  succeeded # {} =>
               /\ Len(h) = Cardinality(succeeded)
               /\ HasKey(d, "reward") /\ d.reward = h[Len(h)]
               /\ \E t \in succeeded :
                     /\ d.last_action = threads[t].value.action
                     /\ d.reward = threads[t].value.reward

\* The registered strategies whose state has a context key equal to context,
\* as registry positions in insertion order.
MatchingContext(reg, context) ==
    LET Matches(i) == /\ HasKey(StateOf(reg, i), "context")
                      /\ StateOf(reg, i).context = context
    IN  SelectSeq([i \in 1..Len(reg) |-> i], Matches)

\* C12: _select_relevant_strategies returns exactly the registered strategies
\* whose state's context equals the current context, in insertion order; when
\* there is none and a "fallback" entry is registered it returns the
\* one-element list holding that entry.
C12_SelectsMatching ==
    last.op = "select_relevant_strategies" =>
        LET matching == MatchingContext(strategies, current_context)
        IN  /\ matching # << >> => last.value.candidates = matching
            /\ (matching = << >> /\ "fallback" \in Keys(strategies)) =>
                  last.value.candidates = << FallbackIndex(strategies) >>

\* C14: a strategy whose state has no context key, or is no dict at all, is
\* never applicable, whatever the current context is, and the applicability
\* check never raises.
C14_MalformedNeverApplicable ==
    last.op = "is_strategy_applicable" =>
        /\ ~last.raised
        /\ ~HasKey(StateOf(strategies, last.target), "context")
              => ~last.value.applicable

\* C13: when no registered strategy is applicable and no "fallback" entry is
\* registered, process_interaction returns the degraded outcome directly:
\* _execute_strategy and rollback are called on no candidate.
C13_NoCandidates ==
    [][(/\ IsStep("process_interaction")
        /\ MatchingContext(strategies, current_context) = << >>
        /\ "fallback" \notin Keys(strategies)) =>
          /\ ~last'.raised
          /\ IsDegraded(last'.value)
          /\ last'.calls = << >>
    ]_vars

\* C15: when the state update fails during execute() in default mode, with
\* action and reward known, the old state is kept, nothing is appended to the
\* reward history and execute() returns the degraded outcome.
C15_UpdateFailureDegrades ==
    [][IsStep("execute") =>
        \A env \in Envs :
          (/\ ~env.rewFail
           /\ strategies[last'.target].strategy.error_handling
           /\ ~IsDict(StateOf(strategies, last'.target))
           /\ Execute(last'.target, env))
          => /\ ~last'.raised
             /\ StateOf(strategies', last'.target) = StateOf(strategies, last'.target)
             /\ HistoryOf(strategies', last'.target)
                   = HistoryOf(strategies, last'.target)
             /\ IsDegraded(last'.value)
    ]_vars

\* C16: in default mode _select_next_action never raises; when emotion
\* analysis fails, choose_action is still called, with the neutral signal
\* {sentiment: "neutral", intensity: 0}, and its action is returned; when
\* choose_action fails the fixed action "minimal_intervention" is returned.
C16_SelectionTotal ==
    (/\ last.op = "select_next_action"
     /\ strategies[last.target].strategy.error_handling) =>
        /\ ~last.raised
        /\ last.value.emoFail => last.value.emotion = Return(NeutralEmotion)
        /\ ~last.value.actFail => last.value.action = last.value.chosen
        /\ last.value.actFail => last.value.action = "minimal_intervention"

C16_Witness ==
    /\ last.op = "select_next_action"
    /\ strategies[last.target].strategy.error_handling
    /\ last.value.emoFail /\ ~last.value.actFail
    /\ last.value.emotion.value = NeutralEmotion
    /\ last.value.action = "none"

\* The sequence h0 is a prefix of the sequence h1.
IsPrefix(h0, h1) ==
    /\ Len(h0) <= Len(h1)
    /\ \A k \in 1..Len(h0) : h1[k] = h0[k]

\* C17: the reward history is append-only: over every execute,
\* _execute_strategy, rollback and process_interaction step, each strategy's
\* history before the step is a prefix of its history after it.
C17_HistoryAppendOnly ==
    [][\A i \in 1..Len(strategies) :
          IsPrefix(HistoryOf(strategies, i), HistoryOf(strategies', i))]_vars

C17_Witness ==
    /\ last.op \in {"rollback", "execute_strategy"} /\ last.target # 0
    /\ (last.op = "execute_strategy" => last.calls[1].rollback)
    /\ Len(HistoryOf(strategies, last.target)) >= 2
    /\ ~HasKey(StateOf(strategies, last.target), "reward")

\* C18: a failed execution leaves the state unchanged: when execute() of a
\* strict strategy that has executed successfully before raises, and
\* _execute_strategy handles it with rollback and the degraded outcome, the
\* strategy's state after _execute_strategy equals its state before the call.
C18_FailureLeavesState ==
    [][(/\ IsStep("execute_strategy")
        /\ last'.target # 0
        /\ last'.calls[1].rollback
        /\ ~strategies[last'.target].strategy.error_handling
        /\ Len(HistoryOf(strategies, last'.target)) >= 1) =>
          /\ ~last'.raised
          /\ IsDegraded(last'.value)
          /\ StateOf(strategies', last'.target) = StateOf(strategies, last'.target)
    ]_vars

\* C19: under sequential operation, from a state without last_action,
\* timestamp and reward, every state of a strategy holds last_action, timestamp
\* and reward all together or none of them, and when reward is present the
\* reward history is non-empty and ends with the state's reward; this after
\* any sequence of execute() calls and rollbacks.
C19_ConsistentTriple ==
    \A i \in 1..Len(strategies) :
        LET d == StateOf(strategies, i)
            h == HistoryOf(strategies, i)
        IN  IsDict(d) =>
               /\ \/ {"last_action", "timestamp", "reward"} \subseteq DOMAIN d
                  \/ {"last_action", "timestamp", "reward"} \cap DOMAIN d = {}
               /\ "reward" \in DOMAIN d => (h # << >> /\ h[Len(h)] = d.reward)

\* The outcome and the strategy i after an execute() whose action choice failed.
MinimalRecorded(i, outcome, reward) ==
    /\ outcome.action = "minimal_intervention" /\ outcome.reward = reward
    /\ HasKey(StateOf(strategies', i), "last_action")
    /\ StateOf(strategies', i).last_action = "minimal_intervention"
    /\ StateOf(strategies', i).reward = reward
    /\ HistoryOf(strategies', i) = Append(HistoryOf(strategies, i), reward)

\* C20: in default mode, when choose_action fails and get_reward succeeds,
\* execute() returns a non-degraded outcome with action "minimal_intervention"
\* and records that action and reward in state and reward history; and
\* process_interaction takes such an outcome for a success: it returns it and
\* executes no later candidate.
C20_MinimalInterventionSucceeds ==
    [][/\ IsStep("execute") =>
            \A env \in Envs :
              (/\ env.actFail /\ ~env.rewFail
               /\ strategies[last'.target].strategy.error_handling
               /\ Execute(last'.target, env))
              => /\ ~last'.raised
                 /\ MinimalRecorded(last'.target, last'.value, env.reward)
       /\ (IsStep("process_interaction") /\ ~last'.raised) =>
            \A k \in 1..Len(last'.calls) :
               last'.calls[k].value.action = "minimal_intervention" =>
                  (k = Len(last'.calls) /\ last'.value = last'.calls[k].value)
    ]_vars
====
